---- MODULE Spec2Model ----
(***************************************************************************)
(* Warframe-market collector: the raw monthly store written by the 6-hour  *)
(* collector (collector/wfm_common.py, collector/snapshots_6h_all.py) and  *)
(* the analytics run over it (transform/build_analytics.py).               *)
(*                                                                         *)
(* Numbers.  A raw price or count is an integer.  A daily median is held   *)
(* doubled (the median of an even number of integers may end in .5), so    *)
(* every price and depth of the derived tables is in half units; an        *)
(* effective part depth (a floor) is in whole units; a KPI daily potential *)
(* (price x depth) is in quarter units.  NaN is pandas' missing value.     *)
(***************************************************************************)
EXTENDS Integers, Sequences, FiniteSets, TLC

VARIABLES
  orderbook,     \* data/<month>/orderbook_<month>.csv and ..._old.csv, per month
  setcomp,       \* data/<month>/set_components_<month>.csv and ..._old.csv
  clock,         \* the collector's wall clock: [month, day, run]
  observed,      \* every component row a collector run has fetched so far
  written,       \* every (file, month, natural key) a current monthly file has held after a run
  pc,            \* "idle"; "analysed" once build_analytics.main has run on the store as it is; "failed" when it raised
  daily,         \* main's `daily` (DailySummary with eff_buy_price)
  df_comps,      \* main's `df_comps` after the de-duplication
  sets_daily,    \* main's `sets_daily` (SetDailyRecord rows)
  timeseries,    \* docs/data/analytics/timeseries/<set_url>__set.csv
  sets_index,    \* docs/data/analytics/sets_index.csv
  parts_latest,  \* docs/data/analytics/parts_latest_by_set.csv
  bad            \* the rows of the discrepancy warning of the last run

vars == <<orderbook, setcomp, clock, observed, written, pc, daily, df_comps, sets_daily,
          timeseries, sets_index, parts_latest, bad>>

---------------------------------------------------------------------------
(* Values *)

NaN == -1000000

Junk == -2000000

IsNa(v) == v = NaN

NotNa(v) == v # NaN

NoStr == ""

BadTs == <<>>

Max(S) == CHOOSE v \in S : \A w \in S : w <= v

Min(S) == CHOOSE v \in S : \A w \in S : v <= w

RECURSIVE SumOver(_, _)
SumOver(S, f) ==
  IF S = {} THEN 0
  ELSE LET e == CHOOSE e \in S : TRUE IN f[e] + SumOver(S \ {e}, f)

Contains(s, t) ==
  \E i \in 1..(Len(s) - Len(t) + 1) : SubSeq(s, i, i + Len(t) - 1) = t

\* str.lower on the identifiers of the model
Lower(s) ==
  CASE s = "X_Prime_Set" -> "x_prime_set"
    [] s = "A" -> "a"
    [] s = "PC" -> "pc"
    [] OTHER -> s

LowerWrong(s) == s

\* normalize_str(df, col, default): fillna(default) when a default is given,
\* astype(str) (a missing cell becomes "nan"), str.lower()
normalize_str(v, default) ==
  LET filled == IF default # NoStr /\ v = NoStr THEN default ELSE v
      str == IF filled = NoStr THEN "nan" ELSE filled
  IN Lower(str)

\* pd.to_numeric(errors="coerce")
to_numeric(v) == IF v = Junk THEN NaN ELSE v

\* pd.to_datetime(ts, utc=True, errors="coerce").dt.date
UtcDate(ts) == IF ts = BadTs THEN NaN ELSE ts[1]

---------------------------------------------------------------------------
(* Daily Aggregator *)

\* the k-th smallest (k = 1..n) of the values f[i], i in J
KthSmallest(J, f, k) ==
  CHOOSE v \in {f[j] : j \in J} :
    /\ Cardinality({j \in J : f[j] < v}) < k
    /\ Cardinality({j \in J : f[j] <= v}) >= k

MedianMean(J, f) ==
  LET n == Cardinality(J) IN
  IF n = 0 THEN NaN ELSE (2 * SumOver(J, f)) \div n

MedianUpper(J, f) ==
  LET n == Cardinality(J) IN
  IF n = 0 THEN NaN ELSE 2 * KthSmallest(J, f, (n \div 2) + 1)

\* pandas' groupby median, doubled: NaN is skipped; an all-NaN group gives NaN
MedianNonNa(J, f) ==
  LET n == Cardinality(J) IN
  IF n = 0 THEN NaN
  ELSE IF n % 2 = 1 THEN 2 * KthSmallest(J, f, (n + 1) \div 2)
  ELSE KthSmallest(J, f, n \div 2) + KthSmallest(J, f, (n \div 2) + 1)

MedianZeroFill(idx, f) ==
  MedianNonNa(idx, [i \in idx |-> IF IsNa(f[i]) THEN 0 ELSE f[i]])

Median2(idx, f) == MedianNonNa({i \in idx : NotNa(f[i])}, f)

OrderKey(r) ==
  <<normalize_str(r.item_url, NoStr), normalize_str(r.platform, "pc"), UtcDate(r.ts)>>

daily_medians_orderbook(df) ==
  LET keys == {k \in {OrderKey(df[i]) : i \in DOMAIN df} : NotNa(k[3])}
      grp(k) == {i \in DOMAIN df : OrderKey(df[i]) = k}
      col(c) == [i \in DOMAIN df |-> to_numeric(df[i][c])]
  IN { [item_url |-> k[1], platform |-> k[2], date |-> k[3],
        buy_med |-> Median2(grp(k), col("top_buy_avg")),
        sell_med |-> Median2(grp(k), col("top_sell_avg")),
        buy_depth_med |-> Median2(grp(k), col("buy_count")),
        sell_depth_med |-> Median2(grp(k), col("sell_count"))] : k \in keys }

\* main, lines 150-156: effective BUY price, BUY preferred, SELL as the fallback
EffPriceBuyOnly(buy_med, sell_med) == buy_med

EffPriceNoZeroTest(buy_med, sell_med) ==
  IF IsNa(buy_med) THEN sell_med ELSE buy_med

eff_buy_price(buy_med, sell_med) ==
  IF IsNa(buy_med) \/ buy_med <= 0 THEN sell_med ELSE buy_med

WithEff(d) ==
  { [item_url |-> r.item_url, platform |-> r.platform, date |-> r.date,
     buy_med |-> r.buy_med, sell_med |-> r.sell_med,
     buy_depth_med |-> r.buy_depth_med, sell_depth_med |-> r.sell_depth_med,
     eff_buy_price |-> eff_buy_price(r.buy_med, r.sell_med)] : r \in d }

---------------------------------------------------------------------------
(* Composition Resolver *)

\* quantity_for_set.fillna(1).astype(int), line 132, raises ValueError on a
\* cell that is not a number
astype_int_raises(df) == \E i \in DOMAIN df : df[i].quantity_for_set = Junk

\* quantity_for_set.fillna(1).astype(int)
Quantity(v) == IF IsNa(v) THEN 1 ELSE v

CompKey(r) ==
  <<normalize_str(r.set_url, NoStr), normalize_str(r.platform, "pc"),
    normalize_str(r.part_url, NoStr)>>

AggFirst(df, grp) == Quantity(df[Min(grp)].quantity_for_set)

AggSum(df, grp) ==
  SumOver(grp, [i \in grp |-> Quantity(df[i].quantity_for_set)])

\* .agg(quantity_for_set=("quantity_for_set", "max")) over one group of rows
AggQuantity(df, grp) == Max({Quantity(df[i].quantity_for_set) : i \in grp})

\* main, lines 127-140: one component row per set/platform/part
dedup_components(df) ==
  LET keys == {CompKey(df[i]) : i \in DOMAIN df}
      grp(k) == {i \in DOMAIN df : CompKey(df[i]) = k}
  IN { [set_url |-> k[1], platform |-> k[2], part_url |-> k[3],
        quantity_for_set |-> AggQuantity(df, grp(k))] : k \in keys }

PartsOf(comps, s, p) == {c \in comps : c.set_url = s /\ c.platform = p}

n_parts(comps, s, p) == Cardinality({c.part_url : c \in PartsOf(comps, s, p)})

total_qty(comps, s, p) ==
  LET cs == PartsOf(comps, s, p)
  IN SumOver(cs, [c \in cs |-> c.quantity_for_set])

CraftablePartsOnly(comps, s, p) == n_parts(comps, s, p) >= 2

is_craftable(comps, s, p) ==
  n_parts(comps, s, p) >= 2 \/ total_qty(comps, s, p) >= 2

PrimeAnywhere(set_url) == Contains(set_url, "prime")

is_prime(set_url) == Contains(set_url, "prime_set")

\* main, lines 158-166: the (set, platform) pairs that go on to the cost model
craftable_prime(comps) ==
  { sp \in {<<c.set_url, c.platform>> : c \in comps} :
      is_craftable(comps, sp[1], sp[2]) /\ is_prime(sp[1]) }

---------------------------------------------------------------------------
(* Cost Model *)

\* comp_prices, lines 177-188: a component joined with its part's daily rows of
\* one date (the left merge's unmatched rows carry a NaN date, which the
\* groupby of line 192 drops)
comp_prices(comps, d, s, p, date) ==
  { <<c, r>> \in PartsOf(comps, s, p) \X d :
      r.item_url = c.part_url /\ r.platform = p /\ r.date = date }

weighted_cost(cr) ==
  IF IsNa(cr[2].eff_buy_price) THEN NaN
  ELSE cr[1].quantity_for_set * cr[2].eff_buy_price

EffDepthCeil(cr) ==
  IF IsNa(cr[2].sell_depth_med) THEN 0
  ELSE (cr[2].sell_depth_med + 2 * cr[1].quantity_for_set - 1)
         \div (2 * cr[1].quantity_for_set)

\* (sell_depth_med // quantity_for_set).fillna(0), in whole units
eff_part_depth(cr) ==
  IF IsNa(cr[2].sell_depth_med) THEN 0
  ELSE cr[2].sell_depth_med \div (2 * cr[1].quantity_for_set)

SumPropagateNa(rows) ==
  IF \E cr \in rows : IsNa(weighted_cost(cr)) THEN NaN
  ELSE SumOver(rows, [cr \in rows |-> weighted_cost(cr)])

\* groupby(...).agg(parts_cost_buy=("weighted_cost", "sum")): pandas' sum skips
\* NaN, and the sum of no value is 0
SumSkipNa(rows) ==
  LET have == {cr \in rows : NotNa(weighted_cost(cr))}
  IN SumOver(have, [cr \in have |-> weighted_cost(cr)])

\* set_costs, lines 190-195; the left merge of line 198 gives NaN where the
\* group does not exist
parts_cost_buy(comps, d, s, p, date) ==
  LET rows == comp_prices(comps, d, s, p, date)
  IN IF rows = {} THEN NaN ELSE SumSkipNa(rows)

min_part_eff_depth(comps, d, s, p, date) ==
  LET rows == comp_prices(comps, d, s, p, date)
  IN IF rows = {} THEN NaN ELSE Min({eff_part_depth(cr) : cr \in rows})

Sub(a, b) == IF IsNa(a) \/ IsNa(b) THEN NaN ELSE a - b

FillNa0(v) == IF IsNa(v) THEN 0 ELSE v

Max0(v) == IF v < 0 THEN 0 ELSE v

Min2(a, b) == IF a <= b THEN a ELSE b

NoRoi == <<>>

RoiZeroFill(margin, cost) ==
  IF IsNa(margin) THEN NoRoi
  ELSE IF IsNa(cost) \/ cost <= 0 THEN <<0, 1>> ELSE <<100 * margin, cost>>

\* roi_pct, lines 200-204: the exact fraction 100 * margin / parts_cost_buy
roi_pct(margin, cost) ==
  IF IsNa(cost) \/ cost <= 0 \/ IsNa(margin) THEN NoRoi ELSE <<100 * margin, cost>>

\* daily_volume_cap, lines 215-217, in half units
daily_volume_cap(buy_depth_med, min_depth) ==
  Min2(2 * Max0(FillNa0(min_depth)), Max0(FillNa0(buy_depth_med)))

KpiSigned(margin, cap) == FillNa0(margin) * cap

\* kpi_daily_potential, line 218, in quarter units
kpi_daily_potential(margin, cap) == Max0(FillNa0(margin)) * cap

\* Python's string order on the identifiers of the model
Alphabet ==
  <<"a", "b", "c", "nan", "pc", "s1_prime_set", "s2_prime_set", "s3_prime_set",
    "s4_prime_set", "s5_prime_set", "s6_prime_set", "s7_prime_set",
    "x_prime_set", "xbox", "y_set", "z_prime_set">>

Rank(s) == CHOOSE i \in DOMAIN Alphabet : Alphabet[i] = s

\* sets_daily before the KPI normalisation, lines 169-220 (opportunity_score,
\* a float logarithm no claim reads, is left out)
SetsDailyRow(comps, d, r) ==
  LET cost == parts_cost_buy(comps, d, r.item_url, r.platform, r.date)
      depth == min_part_eff_depth(comps, d, r.item_url, r.platform, r.date)
      margin == Sub(r.sell_med, cost)
      cap == daily_volume_cap(r.buy_depth_med, depth)
  IN [set_url |-> r.item_url, platform |-> r.platform, date |-> r.date,
      buy_med |-> r.buy_med, sell_med |-> r.sell_med,
      buy_depth_med |-> r.buy_depth_med, sell_depth_med |-> r.sell_depth_med,
      eff_buy_price |-> r.eff_buy_price,
      n_parts |-> n_parts(comps, r.item_url, r.platform),
      parts_cost_buy |-> cost, min_part_eff_depth |-> depth,
      margin |-> margin, roi_pct |-> roi_pct(margin, cost),
      daily_volume_cap |-> cap,
      kpi_daily_potential |-> kpi_daily_potential(margin, cap)]

GateCraftableOnly(comps) ==
  { sp \in {<<c.set_url, c.platform>> : c \in comps} :
      is_craftable(comps, sp[1], sp[2]) }

\* the inner merge of lines 171-174
Gate(comps) == craftable_prime(comps)

build_sets_daily(comps, d) ==
  { SetsDailyRow(comps, d, r) :
      r \in {q \in d : <<q.item_url, q.platform>> \in Gate(comps)} }

\* head(1) where the code takes tail(1)
EarliestBySet(sd) ==
  { r \in sd : \A q \in sd :
      (q.set_url = r.set_url /\ q.platform = r.platform) => r.date <= q.date }

\* latest_by_set, lines 239-244: the row of the greatest date per set/platform
latest_by_set(sd) ==
  { r \in sd : \A q \in sd :
      (q.set_url = r.set_url /\ q.platform = r.platform) => q.date <= r.date }

---------------------------------------------------------------------------
(* KPI Normalizer.  The scale is held in 160ths of a unit: a potential v (in *)
(* quarter units) is 40 * v, and ten times a quantile of potentials is 4 x.  *)

MinSamples == 5

\* ten times np.quantile(samples, q10 / 10), linear interpolation
Quantile10(rows, q10) ==
  LET n == Cardinality(rows)
      f == [r \in rows |-> r.kpi_daily_potential]
      \* rows are distinct, their potentials need not be: rank rows, not values
      pos == q10 * (n - 1)
      i == pos \div 10
      fr == pos % 10
      \* the k-th smallest potential of the multiset
      kth(k) == KthSmallest(rows, f, k)
  IN IF fr = 0 THEN 10 * kth(i + 1)
     ELSE 10 * kth(i + 1) + fr * (kth(i + 2) - kth(i + 1))

ScaleAlwaysStretch(latest) ==
  LET p10 == Quantile10(latest, 1)
      p90 == Quantile10(latest, 9)
  IN [lo |-> 4 * p10, span |-> IF p90 > p10 THEN 5 * (p90 - p10) ELSE 1]

ScaleNoStretch(latest) ==
  LET n == Cardinality(latest)
  IN IF n >= MinSamples
     THEN LET p10 == Quantile10(latest, 1)
              p90 == Quantile10(latest, 9)
          IN [lo |-> 4 * p10,
              span |-> IF p90 > p10 THEN 4 * (p90 - p10)
                       ELSE (IF 4 * p90 > 160 THEN 4 * p90 ELSE 160) + 160]
     ELSE LET m == IF n = 0 THEN 4 ELSE Max({r.kpi_daily_potential : r \in latest})
          IN [lo |-> 0, span |-> IF 40 * m > 160 THEN 40 * m ELSE 160]

\* lo and hi - lo, lines 248-254
Scale(latest) ==
  LET n == Cardinality(latest)
  IN IF n >= MinSamples
     THEN LET p10 == Quantile10(latest, 1)
              p90 == Quantile10(latest, 9)
          IN [lo |-> 4 * p10,
              span |-> IF p90 > p10 THEN 5 * (p90 - p10)
                       ELSE (IF 4 * p90 > 160 THEN 4 * p90 ELSE 160) + 160]
     ELSE LET m == IF n = 0 THEN 4 ELSE Max({r.kpi_daily_potential : r \in latest})
          IN [lo |-> 0, span |-> IF 40 * m > 160 THEN 40 * m ELSE 160]

\* _norm, lines 256-258: the clipped fraction <<numerator, denominator>>
kpi_norm(v, sc) ==
  LET z == 40 * v - sc.lo
  IN <<IF z < 0 THEN 0 ELSE IF z > sc.span THEN sc.span ELSE z, sc.span>>

\* (kpi_norm * 100).round(): numpy rounds a half to the even neighbour
kpi_0_100(v, sc) ==
  LET a == 100 * kpi_norm(v, sc)[1]
      b == sc.span
      q == a \div b
      r == a % b
  IN IF 2 * r < b THEN q ELSE IF 2 * r > b THEN q + 1 ELSE q + (q % 2)

Window == 30

RowBefore(q, r) ==
  q.date < r.date \/ (q.date = r.date /\ Rank(q.platform) < Rank(r.platform))

\* kpi_30d, lines 222-228: per set_url (every platform of it), the mean of
\* the last Window potentials in date order, as <<sum, count>>
kpi_30d_avg(sd, s) ==
  LET rows == {r \in sd : r.set_url = s}
      tail == {r \in rows : Cardinality({q \in rows : RowBefore(r, q)}) < Window}
  IN <<SumOver(tail, [r \in tail |-> r.kpi_daily_potential]), Cardinality(tail)>>

\* sets_index, lines 268-289
\* the table kpi_30d of lines 223-228: one row per set_url
kpi_30d(sd) ==
  {[set_url |-> s, kpi_30d_avg |-> kpi_30d_avg(sd, s)] : s \in {r.set_url : r \in sd}}

\* the columns of lines 277-285, taken from a row of latest_by_set
IndexRow(sc, r) ==
  [set_url |-> r.set_url, platform |-> r.platform, latest_date |-> r.date,
   set_sell_med |-> r.sell_med, parts_cost_buy |-> r.parts_cost_buy,
   margin |-> r.margin, roi_pct |-> r.roi_pct,
   buy_depth_med |-> r.buy_depth_med,
   min_part_eff_depth |-> r.min_part_eff_depth,
   vol_min |-> daily_volume_cap(r.buy_depth_med, r.min_part_eff_depth),
   kpi_daily |-> r.kpi_daily_potential,
   kpi_norm |-> kpi_norm(r.kpi_daily_potential, sc),
   kpi_0_100 |-> kpi_0_100(r.kpi_daily_potential, sc)]

\* sets_index.merge(kpi_30d, on="set_url", how="left"), line 288: one output
\* row per matching row of the right table, and one with a missing average
\* for a left row that matches none
merge_kpi_30d(left, right) ==
  UNION { IF \E k \in right : k.set_url = l.set_url
          THEN {l @@ [kpi_30d_avg |-> k.kpi_30d_avg] :
                  k \in {q \in right : q.set_url = l.set_url}}
          ELSE {l @@ [kpi_30d_avg |-> <<NaN, 1>>]} : l \in left }

build_sets_index(sd) ==
  LET latest == latest_by_set(sd)
      sc == Scale(latest)
  IN merge_kpi_30d({IndexRow(sc, r) : r \in latest}, kpi_30d(sd))

---------------------------------------------------------------------------
(* Snapshot Alignment & Reconciliation *)

AsofLatestOfPart(d, part, platform, date) ==
  {r \in d : /\ r.item_url = part /\ r.platform = platform
             /\ \A q \in d : (q.item_url = part /\ q.platform = platform)
                               => q.date <= r.date}

AsofExact(d, part, platform, date) ==
  {r \in d : r.item_url = part /\ r.platform = platform /\ r.date = date}

\* pd.merge_asof(direction="backward", allow_exact_matches=True), lines 326-330:
\* the right row of the same part/platform with the greatest date <= date
\* (the empty set when there is none)
merge_asof(d, part, platform, date) ==
  {r \in d : /\ r.item_url = part /\ r.platform = platform /\ r.date <= date
             /\ \A q \in d : (q.item_url = part /\ q.platform = platform
                              /\ q.date <= date) => q.date <= r.date}

UnitCostRaw(eff, sell_med) == eff

\* unit_cost_latest, lines 345-348
unit_cost_latest(eff, sell_med) ==
  IF NotNa(eff) /\ eff > 0 THEN eff ELSE sell_med

SourceNotNaOnly(buy_med) == IF NotNa(buy_med) THEN "BUY" ELSE "SELL"

\* unit_cost_source, lines 349-352
unit_cost_source(buy_med) ==
  IF NotNa(buy_med) /\ buy_med > 0 THEN "BUY" ELSE "SELL"

\* one row of parts_latest: component c of a set whose latest date is `date`
PartLatestRow(d, c, date) ==
  LET m == merge_asof(d, c.part_url, c.platform, date)
      hit == m # {}
      r == CHOOSE r \in m : TRUE
      buy == IF hit THEN r.buy_med ELSE NaN
      sell == IF hit THEN r.sell_med ELSE NaN
  IN [set_url |-> c.set_url, platform |-> c.platform, part_url |-> c.part_url,
      quantity_for_set |-> c.quantity_for_set,
      unit_cost_latest |-> unit_cost_latest(IF hit THEN r.eff_buy_price ELSE NaN, sell),
      buy_med_latest |-> buy, sell_med_latest |-> sell,
      sell_depth_med_latest |-> IF hit THEN r.sell_depth_med ELSE NaN,
      \* merge_asof keeps the left frame's "on" column
      latest_date_part |-> date,
      unit_cost_source |-> unit_cost_source(buy)]

\* parts_latest, lines 299-352: every component of df_comps whose set/platform
\* has a latest row
build_parts_latest(comps, d, latest) ==
  { PartLatestRow(d, cl[1], cl[2].date) :
      cl \in {x \in comps \X latest :
                x[1].set_url = x[2].set_url /\ x[1].platform = x[2].platform} }

\* snapshot_parts_cost, lines 360-364 (a pandas sum: NaN skipped)
snapshot_parts_cost(pl, s, p) ==
  LET have == {r \in pl : r.set_url = s /\ r.platform = p /\ NotNa(r.unit_cost_latest)}
  IN SumOver(have, [r \in have |-> r.unit_cost_latest * r.quantity_for_set])

Abs(v) == IF v < 0 THEN 0 - v ELSE v

\* abs_diff, line 366
abs_diff(pl, ix) ==
  IF IsNa(ix.parts_cost_buy) THEN NaN
  ELSE Abs(ix.parts_cost_buy - snapshot_parts_cost(pl, ix.set_url, ix.platform))

OverToleranceInclusive(pl, ix) ==
  /\ NotNa(ix.parts_cost_buy)
  /\ ix.parts_cost_buy > 0
  /\ 20 * abs_diff(pl, ix) >= ix.parts_cost_buy

\* (rel_diff > 0.05) & abs_diff.notna(), line 374; rel_diff is abs_diff over
\* parts_cost_buy, NaN when parts_cost_buy is 0
OverTolerance(pl, ix) ==
  /\ NotNa(ix.parts_cost_buy)
  /\ ix.parts_cost_buy > 0
  /\ 20 * abs_diff(pl, ix) > ix.parts_cost_buy

TopN == 5

\* q comes before r in nlargest's order: a greater rel_diff, or the same one
\* and an earlier row of cmp (sorted by set_url, platform)
LargerFirst(pl, q, r) ==
  LET aq == abs_diff(pl, q) * r.parts_cost_buy
      ar == abs_diff(pl, r) * q.parts_cost_buy
  IN \/ aq > ar
     \/ /\ aq = ar
        /\ \/ Rank(q.set_url) < Rank(r.set_url)
           \/ (q.set_url = r.set_url /\ Rank(q.platform) < Rank(r.platform))

ReportAll(pl, ixs) == {<<r.set_url, r.platform>> : r \in {x \in ixs : OverTolerance(pl, x)}}

\* bad, lines 374-377: the rows the warning prints
Discrepancies(pl, ixs) ==
  LET cand == {r \in ixs : OverTolerance(pl, r)}
  IN { <<r.set_url, r.platform>> :
         r \in {x \in cand :
                  Cardinality({q \in cand : LargerFirst(pl, q, x)}) < TopN} }

---------------------------------------------------------------------------
(* The raw store and the collector *)

MaxMonth == 2

MaxDay == 2

MaxRuns == 2

MaxQty == 2

Months == 1..MaxMonth

NoFile == [exists |-> FALSE, rows |-> <<>>]

AFile(rows) == [exists |-> TRUE, rows |-> rows]

EmptyStore == [m \in Months |-> [cur |-> NoFile, old |-> NoFile]]

\* load_all_csv, lines 45-54: every file the pattern matches, in sorted(glob)
\* order.  "orderbook_*.csv" matches orderbook_<month>_old.csv too, and
\* "<month>.csv" sorts before "<month>_old.csv" ("." < "_")
RECURSIVE LoadFrom(_, _)
LoadFrom(store, m) ==
  IF m > MaxMonth THEN <<>>
  ELSE store[m].cur.rows \o store[m].old.rows \o LoadFrom(store, m + 1)

LoadCurrentOnly(store) == store[1].cur.rows

load_all_csv(store) == LoadFrom(store, 1)

\* rotate_monthly_csv, wfm_common.py lines 52-63: the files after the rotation
\* and the frame handed back.  `readable` is whether pd.read_csv succeeds on
\* the current file; when it raises, prev_df is None (lines 58-59) and the
\* file is renamed all the same (line 60)
rotate_monthly_csv(f, readable) ==
  IF f.cur.exists
  THEN [files |-> [cur |-> NoFile, old |-> f.cur],
        prev |-> IF readable THEN f.cur.rows ELSE <<>>, some |-> readable]
  ELSE [files |-> [cur |-> NoFile, old |-> NoFile], prev |-> <<>>, some |-> FALSE]

\* DataFrame.drop_duplicates(subset=keys): the first row of each key is kept
\* (keys[i] is the key of row df[i])
drop_duplicates(df, keys) ==
  LET keep == {i \in DOMAIN df : \A j \in DOMAIN df : j < i => keys[j] # keys[i]}
      RECURSIVE Pick(_)
      Pick(i) == IF i > Len(df) THEN <<>>
                 ELSE (IF i \in keep THEN <<df[i]>> ELSE <<>>) \o Pick(i + 1)
  IN Pick(1)

ObKey(r) == <<r.item_url, r.ts, r.platform>>

RawCompKey(r) == <<r.set_url, r.part_url, r.platform>>

\* the natural keys the current monthly files hold (subset_keys of lines 150
\* and 161 of snapshots_6h_all.py)
KeysHeld(ob, sc) ==
  UNION { {<<"orderbook", m, ObKey(ob[m].cur.rows[i])>> : i \in DOMAIN ob[m].cur.rows}
          \cup {<<"set_components", m, RawCompKey(sc[m].cur.rows[i])>> :
                  i \in DOMAIN sc[m].cur.rows} : m \in Months }

KeepLastComponents(old_df, new_df) ==
  LET df == old_df \o new_df
      keys == [i \in DOMAIN df |-> RawCompKey(df[i])]
      keep == {i \in DOMAIN df : \A j \in DOMAIN df : j > i => keys[j] # keys[i]}
      RECURSIVE Pick(_)
      Pick(i) == IF i > Len(df) THEN <<>>
                 ELSE (IF i \in keep THEN <<df[i]>> ELSE <<>>) \o Pick(i + 1)
  IN Pick(1)

\* append_and_write, wfm_common.py lines 65-70, for the order book
append_orderbook(old_df, new_df) ==
  LET df == old_df \o new_df
  IN drop_duplicates(df, [i \in DOMAIN df |-> ObKey(df[i])])

\* append_and_write for the set components
append_components(old_df, new_df) ==
  LET df == old_df \o new_df
  IN drop_duplicates(df, [i \in DOMAIN df |-> RawCompKey(df[i])])

\* what one run can learn of the one prime set of the catalogue:
\* fetch_set_components, snapshots_6h_all.py lines 84-101
CompRow(s, part, q) ==
  [set_url |-> s, part_url |-> part, platform |-> "pc", quantity_for_set |-> q]

CompAnswers ==
  { <<>> } \cup
  { <<CompRow("x_prime_set", "a", q)>> : q \in 1..MaxQty } \cup
  { <<CompRow("x_prime_set", "a", q), CompRow("x_prime_set", "b", 1)>> : q \in 1..MaxQty }

\* snapshot_orders, snapshots_6h_all.py lines 31-61
ObRow(item, ts, quote) ==
  [item_url |-> item, platform |-> "pc", ts |-> ts,
   top_buy_avg |-> quote[1], buy_count |-> quote[2],
   top_sell_avg |-> quote[3], sell_count |-> quote[4]]

Quotes == { <<NaN, 0, 4, 2>>, <<2, 1, 6, 4>> }

\* target_urls, snapshots_6h_all.py line 124: sorted(prime sets | part urls)
TargetUrls(comp_rows) ==
  LET parts == {comp_rows[i].part_url : i \in DOMAIN comp_rows}
  IN IF "b" \in parts THEN <<"a", "b", "x_prime_set">>
     ELSE IF "a" \in parts THEN <<"a", "x_prime_set">>
     ELSE <<"x_prime_set">>

---------------------------------------------------------------------------
(* The state machine *)

NoOutput == [exists |-> FALSE, header |-> FALSE, rows |-> {}]

\* Path.write_text("")
EmptyText == [exists |-> TRUE, header |-> FALSE, rows |-> {}]

\* DataFrame.to_csv(path, index=False)
Csv(rows) == [exists |-> TRUE, header |-> TRUE, rows |-> rows]

NoDerived ==
  /\ pc = "idle"
  /\ daily = {}
  /\ df_comps = {}
  /\ sets_daily = {}
  /\ timeseries = <<>>
  /\ sets_index = NoOutput
  /\ parts_latest = NoOutput
  /\ bad = {}

Init ==
  /\ orderbook = EmptyStore
  /\ setcomp = EmptyStore
  /\ clock = [month |-> 1, day |-> 1, run |-> 0]
  /\ observed = {}
  /\ written = {}
  /\ NoDerived

\* snapshots_6h_all.main, lines 103-162: fetch, then rotate and append both
\* monthly files of the current month.  read_ob and read_sc say whether
\* read_csv succeeds on the current order book and set components files
Collect(read_ob, read_sc) ==
  /\ clock.run < MaxRuns
  /\ \E comp_rows \in CompAnswers, quote \in Quotes :
       LET m == clock.month
           ts == <<clock.day, clock.run>>
           urls == TargetUrls(comp_rows)
           ob_rows == [i \in DOMAIN urls |-> ObRow(urls[i], ts, quote)]
           rot_ob == rotate_monthly_csv(orderbook[m], read_ob)
           rot_sc == rotate_monthly_csv(setcomp[m], read_sc)
       IN /\ orderbook' = [orderbook EXCEPT ![m] =
                 [cur |-> AFile(append_orderbook(rot_ob.prev, ob_rows)),
                  old |-> rot_ob.files.old]]
          /\ setcomp' = [setcomp EXCEPT ![m] =
                 [cur |-> AFile(append_components(rot_sc.prev, comp_rows)),
                  old |-> rot_sc.files.old]]
          /\ observed' = observed \cup {comp_rows[i] : i \in DOMAIN comp_rows}
  /\ written' = written \cup KeysHeld(orderbook', setcomp')
  /\ clock' = [clock EXCEPT !.run = @ + 1]
  /\ pc' = "idle"
  /\ UNCHANGED <<daily, df_comps, sets_daily, timeseries, sets_index, parts_latest, bad>>

\* a run in which both current files, if any, are read
CollectorRun == Collect(TRUE, TRUE)

\* a run in which read_csv raises on one of the current files (lines 58-59 of
\* wfm_common.py): the run goes on and writes that file from the new rows alone
CollectorRunUnreadable ==
  \/ orderbook[clock.month].cur.exists /\ Collect(FALSE, TRUE)
  \/ setcomp[clock.month].cur.exists /\ Collect(TRUE, FALSE)

\* a run that ends between a rotation and the write that follows it (lines
\* 148-150 for the order book, 159-161 for the set components): the current
\* file has been renamed to <month>_old.csv and no current file is written.
\* A run that ends before its first write leaves no timestamp in the store,
\* so the run index is not consumed
CollectorRunInterrupted ==
  /\ clock.run < MaxRuns
  /\ LET m == clock.month
     IN \/ /\ orderbook' = [orderbook EXCEPT ![m] =
                               rotate_monthly_csv(orderbook[m], TRUE).files]
           /\ UNCHANGED <<setcomp, clock>>
        \/ /\ \E comp_rows \in CompAnswers, quote \in Quotes :
                LET ts == <<clock.day, clock.run>>
                    urls == TargetUrls(comp_rows)
                    ob_rows == [i \in DOMAIN urls |-> ObRow(urls[i], ts, quote)]
                    rot_ob == rotate_monthly_csv(orderbook[m], TRUE)
                IN orderbook' = [orderbook EXCEPT ![m] =
                       [cur |-> AFile(append_orderbook(rot_ob.prev, ob_rows)),
                        old |-> rot_ob.files.old]]
           /\ setcomp' = [setcomp EXCEPT ![m] =
                            rotate_monthly_csv(setcomp[m], TRUE).files]
           /\ clock' = [clock EXCEPT !.run = @ + 1]
  /\ written' = written \cup KeysHeld(orderbook', setcomp')
  /\ pc' = "idle"
  /\ UNCHANGED <<observed, daily, df_comps, sets_daily, timeseries, sets_index,
                 parts_latest, bad>>

\* time passes between two scheduled runs: a new day, in the same month or the next
Tick ==
  /\ clock.day < MaxDay
  /\ \E m \in {clock.month, clock.month + 1} :
       /\ m <= MaxMonth
       /\ clock' = [clock EXCEPT !.day = @ + 1, !.month = m]
  /\ UNCHANGED <<orderbook, setcomp, observed, written, pc, daily, df_comps, sets_daily,
                 timeseries, sets_index, parts_latest, bad>>

\* the rows sets_daily carries once lines 260-266 have run
Normalised(sd) ==
  LET sc == Scale(latest_by_set(sd))
  IN { r @@ [vol_min |-> daily_volume_cap(r.buy_depth_med, r.min_part_eff_depth),
             kpi_norm |-> kpi_norm(r.kpi_daily_potential, sc),
             kpi_0_100 |-> kpi_0_100(r.kpi_daily_potential, sc)] : r \in sd }

\* the per-set files of lines 233-235, written over the directory as it is
WriteSeries(dir, sd) ==
  LET new == {r.set_url : r \in sd}
  IN [s \in (DOMAIN dir) \cup new |->
        IF s \in new THEN {r \in sd : r.set_url = s} ELSE dir[s]]

\* build_analytics.main, lines 110-381.  Each table is computed once, in the
\* order of the code, and the later ones read the earlier ones
AnalyticsRun ==
  /\ IF load_all_csv(orderbook) = <<>> \/ load_all_csv(setcomp) = <<>>
     THEN /\ pc' = "analysed"
          /\ sets_index' = EmptyText
          /\ parts_latest' = EmptyText
          /\ daily' = {} /\ df_comps' = {} /\ sets_daily' = {} /\ bad' = {}
          /\ UNCHANGED timeseries
     ELSE IF astype_int_raises(load_all_csv(setcomp))
     THEN \* ValueError at line 132: the run ends there, nothing is written
          /\ pc' = "failed"
          /\ UNCHANGED <<daily, df_comps, sets_daily, timeseries, sets_index,
                         parts_latest, bad>>
     ELSE /\ pc' = "analysed"
          /\ df_comps' = dedup_components(load_all_csv(setcomp))
          /\ daily' = WithEff(daily_medians_orderbook(load_all_csv(orderbook)))
          /\ \E sd \in {build_sets_daily(df_comps', daily')} :
               /\ timeseries' = WriteSeries(timeseries, sd)
               /\ sets_daily' = Normalised(sd)
          /\ sets_index' = Csv(build_sets_index(sets_daily'))
          /\ \E latest \in {latest_by_set(sets_daily')} :
               IF latest = {}
               THEN parts_latest' = EmptyText /\ bad' = {}
               ELSE /\ parts_latest' = Csv(build_parts_latest(df_comps', daily', latest))
                    /\ bad' = Discrepancies(parts_latest'.rows, sets_index'.rows)
  /\ UNCHANGED <<orderbook, setcomp, clock, observed, written>>

Next ==
  \/ CollectorRun
  \/ CollectorRunUnreadable
  \/ CollectorRunInterrupted
  \/ Tick
  \/ AnalyticsRun

Spec == Init /\ [][Next]_vars

---------------------------------------------------------------------------
(* Analytics over a stored history: one part-priced set.  The store holds  *)
(* one monthly file of each kind; every (item, day) cell of the order book *)
(* is drawn from a few snapshots.                                          *)

\* quotes are <<top_buy_avg, buy_count, top_sell_avg, sell_count>>
CellQuotes(opt) ==
  CASE opt = "none" -> <<>>
    [] opt = "buy" -> << <<3, 2, 5, 3>> >>
    [] opt = "sell" -> << <<NaN, 0, 4, 1>> >>
    [] opt = "zero" -> << <<0, 1, 6, 5>> >>
    [] opt = "blank" -> << <<NaN, NaN, NaN, NaN>> >>
    [] opt = "pair" -> << <<3, 2, 5, 3>>, <<6, 1, 8, 4>> >>
    [] opt = "set" -> << <<9, 3, 12, 2>> >>
    [] opt = "setlow" -> << <<NaN, 5, 7, 1>> >>
    [] opt = "setask" -> << <<8, NaN, NaN, 0>> >>

CellRows(item, day, opt) ==
  LET qs == CellQuotes(opt)
  IN [i \in DOMAIN qs |-> ObRow(item, <<day, i>>, qs[i])]

OneFile(rows) == [EmptyStore EXCEPT ![1] = [cur |-> AFile(rows), old |-> NoFile]]

CompsA ==
  { <<CompRow("x_prime_set", "a", q)>> : q \in 1..MaxQty } \cup
  { <<CompRow("x_prime_set", "a", qa), CompRow("x_prime_set", "b", qb)>> :
      qa \in 1..MaxQty, qb \in 1..MaxQty }

InitA ==
  /\ \E a1 \in {"none", "buy", "sell"}, a2 \in {"none", "buy", "sell", "zero", "blank", "pair"},
        a3 \in {"none", "buy"}, b1 \in {"none", "buy"}, b2 \in {"none", "buy", "sell", "blank"},
        x1 \in {"none", "setlow"}, x2 \in {"set", "setask"} :
       orderbook = OneFile(
           CellRows("x_prime_set", 1, x1) \o CellRows("a", 1, a1) \o CellRows("b", 1, b1)
        \o CellRows("a", 2, a2) \o CellRows("x_prime_set", 2, x2) \o CellRows("b", 2, b2)
        \o CellRows("a", 3, a3))
  /\ \E comps \in CompsA : setcomp = OneFile(comps)
  /\ clock = [month |-> 1, day |-> 1, run |-> 0]
  /\ observed = {}
  /\ written = {}
  /\ NoDerived

SpecA == InitA /\ [][AnalyticsRun]_vars

---------------------------------------------------------------------------
(* Analytics over a stored history: the composition table varies.  Raw     *)
(* component rows as both collectors leave them: the legacy collector      *)
(* writes no platform column, an identifier may come in another case, a    *)
(* quantity may be missing.                                                *)

MaxCompRows == 3

CompRowP(s, part, platform, q) ==
  [set_url |-> s, part_url |-> part, platform |-> platform, quantity_for_set |-> q]

CompUniverse ==
  { CompRowP("x_prime_set", part, "pc", q) : part \in {"a", "b"}, q \in 1..MaxQty } \cup
  { CompRowP("X_Prime_Set", "a", NoStr, NaN),
    CompRowP("y_set", "a", "pc", MaxQty),
    CompRowP("y_set", "b", "pc", 1),
    CompRowP("z_prime_set", "a", "pc", 1) }

RECURSIVE SeqsUpTo(_, _)
SeqsUpTo(S, n) ==
  IF n = 0 THEN {<<>>}
  ELSE LET shorter == SeqsUpTo(S, n - 1)
       IN shorter \cup {Append(q, e) : q \in {x \in shorter : Len(x) = n - 1}, e \in S}

OrdersC ==
  { CellRows("x_prime_set", 1, "set") \o CellRows("y_set", 1, "set")
      \o CellRows("z_prime_set", 1, "setlow") \o CellRows("a", 1, "buy")
      \o CellRows("b", 1, "sell"),
    CellRows("a", 1, "buy") \o CellRows("b", 1, "sell"),
    CellRows("X_Prime_Set", 1, "set") \o CellRows("x_prime_set", 2, "setlow")
      \o CellRows("a", 2, "pair") }

InitC ==
  /\ \E rows \in OrdersC : orderbook = OneFile(rows)
  /\ \E comps \in SeqsUpTo(CompUniverse, MaxCompRows) : setcomp = OneFile(comps)
  /\ clock = [month |-> 1, day |-> 1, run |-> 0]
  /\ observed = {}
  /\ written = {}
  /\ NoDerived

SpecC == InitC /\ [][AnalyticsRun]_vars

---------------------------------------------------------------------------
(* Analytics over a stored history: the raw order-book rows vary.  Rows as  *)
(* the monthly files can hold them: several snapshots of one item on one    *)
(* day, an identifier in another case, an empty platform cell, a timestamp  *)
(* that does not parse, empty or non-numeric price and count cells.         *)

MaxObs == 3

ObRowP(item, platform, ts, quote) ==
  [item_url |-> item, platform |-> platform, ts |-> ts,
   top_buy_avg |-> quote[1], buy_count |-> quote[2],
   top_sell_avg |-> quote[3], sell_count |-> quote[4]]

QuotesD == { <<3, 2, 5, 3>>, <<6, 1, 8, 4>>, <<NaN, Junk, 4, NaN>> }

ObUniverse ==
  { ObRowP(k[1], k[2], k[3], q) :
      k \in { <<"a", "pc", <<1, 1>> >>, <<"A", NoStr, <<1, 2>> >>,
              <<"a", "pc", <<2, 1>> >>, <<"a", "pc", BadTs>> },
      q \in QuotesD }

InitD ==
  /\ \E rows \in SeqsUpTo(ObUniverse, MaxObs) : orderbook = OneFile(rows)
  /\ setcomp = OneFile(<<CompRow("x_prime_set", "a", 2)>>)
  /\ clock = [month |-> 1, day |-> 1, run |-> 0]
  /\ observed = {}
  /\ written = {}
  /\ NoDerived

SpecD == InitD /\ [][AnalyticsRun]_vars

---------------------------------------------------------------------------
(* Analytics over a stored history: a catalogue of several prime sets.      *)
(* Part a is priced on both days, part b on day 1 only, every set on day 2  *)
(* (its latest date).  Each set's composition and asking price are drawn    *)
(* from a few cases.                                                        *)

MaxSets == 6

Catalogue ==
  <<"s1_prime_set", "s2_prime_set", "s3_prime_set", "s4_prime_set",
    "s5_prime_set", "s6_prime_set", "s7_prime_set">>

\* the component rows of set s in one case; b is not priced on the set's
\* latest date, so the cost model leaves it out and the as-of breakdown
\* prices it from day 1: a relative difference of 0, 5%, 10% or 15%
SetCompRows(s, opt) ==
  CASE opt = "off" -> <<>>
    [] opt \in {"plain", "plainhi"} -> <<CompRow(s, "a", 2)>>
    [] opt = "stale" -> <<CompRow(s, "a", 1), CompRow(s, "b", 1)>>
    [] opt = "stale2" -> <<CompRow(s, "a", 1), CompRow(s, "b", 2)>>
    [] opt = "stale3" -> <<CompRow(s, "a", 1), CompRow(s, "b", 3)>>

SetQuote(opt) == IF opt = "plainhi" THEN <<45, 2, 60, 1>> ELSE <<45, 2, 50, 1>>

SetOptions(i) ==
  CASE i = 1 -> {"off", "plain", "stale2", "stale3"}
    [] i = 2 -> {"plain", "stale", "stale2"}
    [] i = 3 -> {"plainhi", "stale2", "stale3"}
    [] i = 4 -> {"plain", "stale2", "stale3"}
    [] i = 6 -> {"plain", "plainhi", "stale3"}
    [] OTHER -> {"off", "plain", "stale2"}

PartOrdersW ==
  <<ObRow("a", <<1, 1>>, <<20, 5, 22, 3>>), ObRow("b", <<1, 1>>, <<1, 5, 2, 3>>),
    ObRow("a", <<2, 1>>, <<20, 5, 22, 3>>)>>

RECURSIVE OrdersW(_, _)
OrdersW(choice, i) ==
  IF i > MaxSets THEN <<>>
  ELSE <<ObRow(Catalogue[i], <<2, 1>>, SetQuote(choice[i]))>> \o OrdersW(choice, i + 1)

RECURSIVE CompsW(_, _)
CompsW(choice, i) ==
  IF i > MaxSets THEN <<>>
  ELSE SetCompRows(Catalogue[i], choice[i]) \o CompsW(choice, i + 1)

InitW ==
  /\ \E choice \in [1..MaxSets -> {"off", "plain", "plainhi", "stale", "stale2", "stale3"}] :
       /\ \A i \in 1..MaxSets : choice[i] \in SetOptions(i)
       /\ orderbook = OneFile(PartOrdersW \o OrdersW(choice, 1))
       /\ setcomp = OneFile(CompsW(choice, 1))
  /\ clock = [month |-> 1, day |-> 1, run |-> 0]
  /\ observed = {}
  /\ written = {}
  /\ NoDerived

SpecW == InitW /\ [][AnalyticsRun]_vars

---------------------------------------------------------------------------
(* Analytics over a stored history: one prime set traded on two platforms.  *)
(* The order-book file holds any sequence of a few snapshots, in any order; *)
(* the component file lists the set's part per platform.                    *)

MaxRowsP == 4

ObUniverseP ==
  { ObRowP("x_prime_set", "pc", <<1, 1>>, <<9, 3, 12, 2>>),
    ObRowP("x_prime_set", "xbox", <<1, 1>>, <<9, 3, 20, 2>>),
    ObRowP("x_prime_set", "xbox", <<2, 1>>, <<9, 3, 16, 2>>),
    ObRowP("a", "pc", <<1, 1>>, <<3, 2, 5, 3>>),
    ObRowP("a", "xbox", <<1, 1>>, <<3, 2, 5, 3>>),
    ObRowP("a", "xbox", <<1, 2>>, <<6, 1, 8, 4>>) }

CompsP ==
  { <<CompRowP("x_prime_set", "a", "pc", 2), CompRowP("x_prime_set", "a", "xbox", 2)>>,
    <<CompRowP("x_prime_set", "a", "xbox", 2), CompRowP("x_prime_set", "a", "pc", 1),
      CompRowP("x_prime_set", "a", "pc", 2)>> }

InitP ==
  /\ \E rows \in SeqsUpTo(ObUniverseP, MaxRowsP) : orderbook = OneFile(rows)
  /\ \E comps \in CompsP : setcomp = OneFile(comps)
  /\ clock = [month |-> 1, day |-> 1, run |-> 0]
  /\ observed = {}
  /\ written = {}
  /\ NoDerived

\* A history longer than the rolling window: one set quoted on every day of
\* MaxDaysL days on pc and, except on the day `gap`, on xbox, so that the set
\* has more than Window daily records and the window's cut falls inside a date.
MaxDaysL == 16

RECURSIVE HistoryL(_, _)
HistoryL(day, gap) ==
  IF day > MaxDaysL THEN <<>>
  ELSE <<ObRowP("x_prime_set", "pc", <<day, 1>>, <<9, 3, 12 + day, 2>>),
         ObRowP("a", "pc", <<day, 1>>, <<3, 2, 5, 3>>),
         ObRowP("a", "xbox", <<day, 1>>, <<3, 2, 5, 3>>)>>
       \o (IF day = gap THEN <<>>
           ELSE <<ObRowP("x_prime_set", "xbox", <<day, 1>>, <<9, 3, 40 + day, 2>>)>>)
       \o HistoryL(day + 1, gap)

RECURSIVE RotateBy(_, _)
RotateBy(q, k) ==
  IF k = 0 \/ q = <<>> THEN q ELSE RotateBy(Tail(q) \o <<Head(q)>>, k - 1)

InitL ==
  /\ \E gap \in {0, 1, 9}, k \in {0, 1, 17} :
       orderbook = OneFile(RotateBy(HistoryL(1, gap), k))
  /\ setcomp = OneFile(<<CompRowP("x_prime_set", "a", "pc", 2),
                         CompRowP("x_prime_set", "a", "xbox", 2)>>)
  /\ clock = [month |-> 1, day |-> 1, run |-> 0]
  /\ observed = {}
  /\ written = {}
  /\ NoDerived

SpecP == (InitP \/ InitL) /\ [][AnalyticsRun]_vars

---------------------------------------------------------------------------
(* Analytics over a stored history with malformed records: a timestamp     *)
(* that does not parse, a price cell or a quantity cell that is not a      *)
(* number.                                                                  *)

ObUniverseM ==
  { ObRow("x_prime_set", <<1, 1>>, <<9, 3, 12, 2>>),
    ObRow("x_prime_set", BadTs, <<9, 3, 30, 2>>),
    ObRow("a", <<1, 1>>, <<3, 2, 5, 3>>),
    ObRow("a", <<1, 2>>, <<Junk, 2, 7, Junk>>),
    ObRow("a", BadTs, <<1, 1, 1, 1>>) }

CompUniverseM ==
  { CompRow("x_prime_set", "a", 2), CompRow("x_prime_set", "a", Junk),
    CompRow("x_prime_set", "b", 1), CompRow("x_prime_set", "b", NaN) }

InitM ==
  /\ \E rows \in SeqsUpTo(ObUniverseM, MaxObs) : orderbook = OneFile(rows)
  /\ \E comps \in SeqsUpTo(CompUniverseM, MaxCompRows) : setcomp = OneFile(comps)
  /\ clock = [month |-> 1, day |-> 1, run |-> 0]
  /\ observed = {}
  /\ written = {}
  /\ NoDerived

SpecM == InitM /\ [][AnalyticsRun]_vars

---------------------------------------------------------------------------
(* Claims *)

Analysed == pc = "analysed"

\* the DailySummary rows of one item on one platform
SummaryRows(item, platform) ==
  {q \in daily : q.item_url = item /\ q.platform = platform}

\* the claim's "no effective price on that date": no row, or both medians missing
NoEffectivePrice(part, platform, date) ==
  \A q \in SummaryRows(part, platform) :
    q.date = date => (IsNa(q.buy_med) /\ IsNa(q.sell_med))

\* the effective price rule as the specification words it
SpecEffective(buy_med, sell_med) ==
  IF NotNa(buy_med) /\ buy_med > 0 THEN buy_med ELSE sell_med

\* C1: for every SetDailyRecord, if a part of the set's normalized composition
\* has no effective price on the record's date, the record's parts cost is
\* missing (never zero, never a sum that leaves the part out).
C1_MissingPartMakesCostUndefined ==
  Analysed =>
    \A r \in sets_daily :
      (\E c \in PartsOf(df_comps, r.set_url, r.platform) :
           NoEffectivePrice(c.part_url, r.platform, r.date))
        => IsNa(r.parts_cost_buy)

\* the part's DailySummary row an as-of lookup at `date` must give
AsOfRow(part, platform, date) ==
  {q \in SummaryRows(part, platform) :
     /\ q.date <= date
     /\ \A o \in SummaryRows(part, platform) : o.date <= date => o.date <= q.date}

SetLatestDate(s, p) ==
  Max({r.date : r \in {q \in sets_daily : q.set_url = s /\ q.platform = p}})

\* C3: every PartLatestRecord takes its unit cost and depth from the part's
\* DailySummary row of the greatest date <= the set's latest date (missing
\* when the part has no such row); a later part row is never used.
C3_AsOfAlignment ==
  Analysed =>
    \A pr \in parts_latest.rows :
      LET m == AsOfRow(pr.part_url, pr.platform, SetLatestDate(pr.set_url, pr.platform))
      IN IF m = {}
         THEN IsNa(pr.unit_cost_latest) /\ IsNa(pr.sell_depth_med_latest)
         ELSE \A q \in m :
                /\ pr.unit_cost_latest = SpecEffective(q.buy_med, q.sell_med)
                /\ pr.sell_depth_med_latest = q.sell_depth_med
                /\ pr.buy_med_latest = q.buy_med
                /\ pr.sell_med_latest = q.sell_med

\* C3 witness: a part priced before and after the set's latest date and not
\* on it; the record carries the earlier price, which differs from the later
C3_Witness ==
  /\ Analysed
  /\ \E pr \in parts_latest.rows :
       LET D == SetLatestDate(pr.set_url, pr.platform)
           rows == SummaryRows(pr.part_url, pr.platform)
       IN /\ \A q \in rows : q.date # D
          /\ \E q \in rows, o \in rows :
               /\ q.date < D /\ o.date > D
               /\ q.eff_buy_price # o.eff_buy_price
               /\ pr.unit_cost_latest = q.eff_buy_price

\* every part of the set has a summary row dated exactly the set's latest date
PartsAllDatedAt(s, p, date) ==
  \A c \in PartsOf(df_comps, s, p) :
    \E q \in SummaryRows(c.part_url, p) : q.date = date

\* the breakdown's total as the reconciliation sums it (a missing unit cost adds nothing)
BreakdownTotal(s, p) ==
  LET rows == {pr \in parts_latest.rows :
                 pr.set_url = s /\ pr.platform = p /\ NotNa(pr.unit_cost_latest)}
  IN SumOver(rows, [pr \in rows |-> pr.quantity_for_set * pr.unit_cost_latest])

\* C4: for every index row whose parts all have a summary row dated exactly
\* the set's latest date, the Cost Model's parts cost equals the sum of
\* quantity x unit cost over the set's PartLatestRecord rows.
C4_ReconciliationAgrees ==
  Analysed =>
    \A ix \in sets_index.rows :
      PartsAllDatedAt(ix.set_url, ix.platform, ix.latest_date)
        => ix.parts_cost_buy = BreakdownTotal(ix.set_url, ix.platform)

\* C4 witness: a two-part set, both parts priced on the set's latest date,
\* one of them on the SELL fallback, and a positive agreed total
C4_Witness ==
  /\ Analysed
  /\ \E ix \in sets_index.rows :
       /\ PartsAllDatedAt(ix.set_url, ix.platform, ix.latest_date)
       /\ Cardinality(PartsOf(df_comps, ix.set_url, ix.platform)) = 2
       /\ \E pr \in parts_latest.rows :
            pr.set_url = ix.set_url /\ pr.unit_cost_source = "SELL" /\ pr.unit_cost_latest > 0
       /\ \E pr \in parts_latest.rows :
            pr.set_url = ix.set_url /\ pr.unit_cost_source = "BUY" /\ pr.quantity_for_set > 1
       /\ ix.parts_cost_buy > 0
       /\ ix.parts_cost_buy = BreakdownTotal(ix.set_url, ix.platform)

\* C10: the effective price of every DailySummary row is the buy median when
\* that is present and > 0 and the sell median otherwise; every
\* PartLatestRecord's unit cost follows the same rule on its own medians, and
\* its source tag is BUY exactly when its buy median is present and > 0.
C10_EffectivePrice ==
  Analysed =>
    /\ \A q \in daily : q.eff_buy_price = SpecEffective(q.buy_med, q.sell_med)
    /\ \A pr \in parts_latest.rows :
         /\ pr.unit_cost_latest = SpecEffective(pr.buy_med_latest, pr.sell_med_latest)
         /\ (pr.unit_cost_source = "BUY")
              <=> (NotNa(pr.buy_med_latest) /\ pr.buy_med_latest > 0)
         /\ pr.unit_cost_source \in {"BUY", "SELL"}

\* C10 witness: one run with a record priced by its buy median, a record
\* whose buy median is 0 and which is priced by its sell median, and a daily
\* row with no buy median whose effective price is its sell median
C10_Witness ==
  /\ Analysed
  /\ \E pr \in parts_latest.rows :
       pr.unit_cost_source = "BUY" /\ pr.unit_cost_latest = pr.buy_med_latest
  /\ \E pr \in parts_latest.rows :
       /\ pr.unit_cost_source = "SELL" /\ pr.buy_med_latest = 0
       /\ pr.sell_med_latest > 0 /\ pr.unit_cost_latest = pr.sell_med_latest
  /\ \E q \in daily : IsNa(q.buy_med) /\ NotNa(q.sell_med) /\ q.eff_buy_price = q.sell_med

\* the raw component rows the run loaded
RawComps == load_all_csv(setcomp)

\* a ComponentLink key as the resolver reads it: identifiers compared in
\* lower case, a missing platform read as "pc"
LinkKey(r) ==
  <<normalize_str(r.set_url, NoStr), normalize_str(r.platform, "pc"),
    normalize_str(r.part_url, NoStr)>>

\* a missing quantity counts as 1
LinkQty(r) == IF IsNa(r.quantity_for_set) THEN 1 ELSE r.quantity_for_set

IndexPermutations(n) ==
  {f \in [1..n -> 1..n] : \A i, j \in 1..n : f[i] = f[j] => i = j}

\* every way to write a finite set of rows as a table
Orderings(S) ==
  {q \in [1..Cardinality(S) -> S] : \A e \in S : \E i \in DOMAIN q : q[i] = e}

Ran == Analysed /\ load_all_csv(orderbook) # <<>> /\ RawComps # <<>>

\* C7: the normalized table has exactly one row per (set, platform, part) of
\* the raw rows, with the maximum raw quantity of that key; it is the same
\* for every reordering and for a repetition of the raw rows, and the
\* resolver applied to its own output gives that output.
C7_ResolverMaxAndIdempotent ==
  Ran =>
    /\ \A c1, c2 \in df_comps :
         (c1.set_url = c2.set_url /\ c1.platform = c2.platform
            /\ c1.part_url = c2.part_url) => c1 = c2
    /\ {<<c.set_url, c.platform, c.part_url>> : c \in df_comps}
         = {LinkKey(RawComps[i]) : i \in DOMAIN RawComps}
    /\ \A c \in df_comps :
         c.quantity_for_set =
           Max({LinkQty(RawComps[i]) :
                  i \in {j \in DOMAIN RawComps :
                           LinkKey(RawComps[j]) = <<c.set_url, c.platform, c.part_url>>}})
    /\ \A f \in IndexPermutations(Len(RawComps)) :
         dedup_components([i \in DOMAIN RawComps |-> RawComps[f[i]]]) = df_comps
    /\ dedup_components(RawComps \o RawComps) = df_comps
    /\ \A q \in Orderings(df_comps) : dedup_components(q) = df_comps

\* C7 witness: three raw rows of one key (one of them in another case, with
\* no platform and no quantity) collapsed to one row of the greatest
\* quantity, which is not the first row's
C7_Witness ==
  /\ Ran
  /\ Len(RawComps) = 3
  /\ \A i \in DOMAIN RawComps : LinkKey(RawComps[i]) = <<"x_prime_set", "pc", "a">>
  /\ IsNa(RawComps[2].quantity_for_set)
  /\ RawComps[1].quantity_for_set = 1
  /\ RawComps[3].quantity_for_set = MaxQty
  /\ df_comps = {CompRowP("x_prime_set", "a", "pc", MaxQty)}

\* the composition facts of the claim, from the normalized table
Craftable(s, p) ==
  LET cs == {c \in df_comps : c.set_url = s /\ c.platform = p}
  IN \/ Cardinality({c.part_url : c \in cs}) >= 2
     \/ SumOver(cs, [c \in cs |-> c.quantity_for_set]) >= 2

Qualifying(s) == Contains(s, "prime_set")

Eligible(s, p) ==
  SummaryRows(s, p) # {} /\ Craftable(s, p) /\ Qualifying(s)

ItemsSeen == {q.item_url : q \in daily} \cup {c.set_url : c \in df_comps}

PlatformsSeen == {q.platform : q \in daily} \cup {c.platform : c \in df_comps}

\* C9: a (set, platform) is in the Cost Model's output (SetDailyRecord rows,
\* index, per-set series) if and only if it has a DailySummary row and is
\* craftable and qualifying.
C9_Gating ==
  Ran =>
    /\ \A s \in ItemsSeen, p \in PlatformsSeen :
         /\ (\E r \in sets_daily : r.set_url = s /\ r.platform = p) <=> Eligible(s, p)
         /\ (\E ix \in sets_index.rows : ix.set_url = s /\ ix.platform = p)
              <=> Eligible(s, p)
    /\ \A s \in ItemsSeen :
         (s \in DOMAIN timeseries) <=> (\E p \in PlatformsSeen : Eligible(s, p))
    /\ DOMAIN timeseries \subseteq ItemsSeen
    /\ \A s \in DOMAIN timeseries :
         {<<r.set_url, r.platform>> : r \in timeseries[s]}
           = {sp \in {s} \X PlatformsSeen : Eligible(sp[1], sp[2])}

\* C9 witness: a set of one part needed twice is in the output, while a
\* craftable set of another family and a prime set of a single part of
\* quantity 1, both with DailySummary rows, are not
C9_Witness ==
  /\ Ran
  /\ PartsOf(df_comps, "x_prime_set", "pc") = {CompRowP("x_prime_set", "a", "pc", 2)}
  /\ \E ix \in sets_index.rows : ix.set_url = "x_prime_set"
  /\ "x_prime_set" \in DOMAIN timeseries
  /\ SummaryRows("y_set", "pc") # {} /\ Craftable("y_set", "pc")
  /\ SummaryRows("z_prime_set", "pc") # {}
  /\ PartsOf(df_comps, "z_prime_set", "pc") = {CompRowP("z_prime_set", "a", "pc", 1)}
  /\ \A ix \in sets_index.rows : ix.set_url = "x_prime_set"
  /\ DOMAIN timeseries = {"x_prime_set"}

---------------------------------------------------------------------------
(* C2: the daily aggregator *)

RawOrders == load_all_csv(orderbook)

\* the (item, platform, UTC date) a raw row belongs to: identifiers compared
\* without case, an empty platform read as pc; no date when ts does not parse
GroupOf(r) ==
  <<IF r.item_url = "A" THEN "a" ELSE r.item_url,
    IF r.platform = NoStr THEN "pc" ELSE r.platform,
    IF r.ts = BadTs THEN NaN ELSE r.ts[1]>>

\* the numeric values of one field in one group, as a sorted sequence
Present(v) == v # NaN /\ v # Junk

SortedField(k, field) ==
  LET J == {i \in DOMAIN RawOrders :
              GroupOf(RawOrders[i]) = k /\ Present(RawOrders[i][field])}
      n == Cardinality(J)
      vals == {RawOrders[i][field] : i \in J}
  IN CHOOSE s \in [1..n -> vals] :
       /\ \A i \in 1..n, j \in 1..n : i <= j => s[i] <= s[j]
       /\ \A v \in vals : Cardinality({i \in 1..n : s[i] = v})
                            = Cardinality({i \in J : RawOrders[i][field] = v})

\* twice the median of a sorted sequence; missing when it is empty
TwiceMedian(s) ==
  IF Len(s) = 0 THEN NaN
  ELSE s[(Len(s) + 1) \div 2] + s[(Len(s) + 2) \div 2]

DailyFields ==
  << <<"buy_med", "top_buy_avg">>, <<"sell_med", "top_sell_avg">>,
     <<"buy_depth_med", "buy_count">>, <<"sell_depth_med", "sell_count">> >>

\* C2: after an analytics run the daily summary has exactly one row per
\* distinct (item, platform, UTC date) of the raw order-book rows, and each of
\* buy price, sell price, buy depth and sell depth is the median of the
\* non-missing values of that field in the group; a group with no value for a
\* field has a missing value there, not zero.
C2_DailyMedians ==
  (Analysed /\ RawOrders # <<>>) =>
    LET groups == {k \in {GroupOf(RawOrders[i]) : i \in DOMAIN RawOrders} : k[3] # NaN}
    IN /\ \A d \in daily : <<d.item_url, d.platform, d.date>> \in groups
       /\ \A k \in groups :
            /\ Cardinality({d \in daily : <<d.item_url, d.platform, d.date>> = k}) = 1
            /\ \A d \in daily :
                 <<d.item_url, d.platform, d.date>> = k =>
                   \A i \in DOMAIN DailyFields :
                     d[DailyFields[i][1]] = TwiceMedian(SortedField(k, DailyFields[i][2]))

\* a day of three snapshots of one item, written in two cases, one without a
\* platform, one without a buy price or counts: medians 4.5, 5, 1.5 and 3.5
C2_Witness ==
  /\ Analysed
  /\ Len(RawOrders) = 3
  /\ \E i \in DOMAIN RawOrders : RawOrders[i].item_url = "A" /\ RawOrders[i].platform = NoStr
  /\ \E i \in DOMAIN RawOrders : RawOrders[i].top_buy_avg = NaN /\ RawOrders[i].buy_count = Junk
  /\ \E d \in daily :
       /\ d.item_url = "a" /\ d.platform = "pc" /\ d.date = 1
       /\ d.buy_med = 9 /\ d.sell_med = 10 /\ d.buy_depth_med = 3 /\ d.sell_depth_med = 7
  /\ Cardinality(daily) = 1

---------------------------------------------------------------------------
(* C5: the discrepancy report *)

\* the set's relative difference between the index's parts cost and the
\* breakdown's total exceeds 5% (no relative difference without a positive cost)
ExceedsTolerance(ix) ==
  /\ ix.parts_cost_buy # NaN
  /\ ix.parts_cost_buy > 0
  /\ LET diff == ix.parts_cost_buy - BreakdownTotal(ix.set_url, ix.platform)
     IN 20 * (IF diff < 0 THEN 0 - diff ELSE diff) > ix.parts_cost_buy

Exceeding == {ix \in sets_index.rows : ExceedsTolerance(ix)}

\* the relative difference of x is at least that of y
RelAtLeast(x, y) ==
  LET dx == x.parts_cost_buy - BreakdownTotal(x.set_url, x.platform)
      dy == y.parts_cost_buy - BreakdownTotal(y.set_url, y.platform)
  IN (IF dx < 0 THEN 0 - dx ELSE dx) * y.parts_cost_buy
       >= (IF dy < 0 THEN 0 - dy ELSE dy) * x.parts_cost_buy

Reported(ix) == <<ix.set_url, ix.platform>> \in bad

---------------------------------------------------------------------------
(* C6: the KPI normalisation *)

\* the latest potentials of the index, sorted
SortedPotentials ==
  LET rows == sets_index.rows
      n == Cardinality(rows)
      vals == {r.kpi_daily : r \in rows}
  IN CHOOSE s \in [1..n -> vals] :
       /\ \A i \in 1..n, j \in 1..n : i <= j => s[i] <= s[j]
       /\ \A v \in vals : Cardinality({i \in 1..n : s[i] = v})
                            = Cardinality({r \in rows : r.kpi_daily = v})

\* ten times the (10 q)-th percentile of the potentials, linear interpolation
\* between the two neighbouring order statistics
TenPercentile(q) ==
  LET s == SortedPotentials
      pos == q * (Len(s) - 1)
      below == s[(pos \div 10) + 1]
  IN IF pos % 10 = 0 THEN 10 * below
     ELSE 10 * below + (pos % 10) * (s[(pos \div 10) + 2] - below)

EnoughSets == Analysed /\ Cardinality(sets_index.rows) >= 5

\* C6 as stated: with at least 5 sets in the cross-section, a set at the 10th
\* percentile has kpi_0_100 = 0 and a set at the 90th percentile has
\* kpi_0_100 = 80, also when the two percentiles coincide.
C6_PercentilesMapTo0And80 ==
  EnoughSets =>
    \A r \in sets_index.rows :
      /\ 10 * r.kpi_daily = TenPercentile(1) => r.kpi_0_100 = 0
      /\ 10 * r.kpi_daily = TenPercentile(9) => r.kpi_0_100 = 80

\* C6 amended: with at least 5 sets in the cross-section, a set at the 10th
\* percentile has kpi_0_100 = 0, and a set at the 90th percentile has
\* kpi_0_100 = 80 when the 90th percentile is greater than the 10th; when
\* the two coincide the sets at that value have 0.
C6_PercentilesMapTo0And80WhenDistinct ==
  EnoughSets =>
    \A r \in sets_index.rows :
      /\ 10 * r.kpi_daily = TenPercentile(1) => r.kpi_0_100 = 0
      /\ (10 * r.kpi_daily = TenPercentile(9) /\ TenPercentile(9) > TenPercentile(1))
           => r.kpi_0_100 = 80

\* six sets, two at the 10th percentile and the others at the 90th
C6_Witness ==
  /\ EnoughSets
  /\ TenPercentile(9) > TenPercentile(1)
  /\ \E r \in sets_index.rows : 10 * r.kpi_daily = TenPercentile(1) /\ r.kpi_0_100 = 0
  /\ \E r \in sets_index.rows : 10 * r.kpi_daily = TenPercentile(9) /\ r.kpi_0_100 = 80

---------------------------------------------------------------------------
(* C8: composition quantities across collection runs *)

\* the quantities the collection runs have observed for one link
ObservedQty(c) ==
  {o.quantity_for_set : o \in {x \in observed :
      x.set_url = c.set_url /\ x.platform = c.platform /\ x.part_url = c.part_url}}

\* C8: whatever the runs that observed a (set, platform, part), in one month
\* or several, the ComponentLink the analytics run uses carries the greatest
\* quantity ever observed for it.
C8_MaxQuantityAcrossRuns ==
  Analysed =>
    \A c \in df_comps :
      \A q \in ObservedQty(c) : q <= c.quantity_for_set

---------------------------------------------------------------------------
(* C11: the liquidity bottleneck *)

\* floor(sell-side depth / required quantity) of component c on `date`, 0 when
\* the part has no summary row that date or the row has no sell-side depth
DepthOrZero(c, date) ==
  LET rows == {q \in SummaryRows(c.part_url, c.platform) :
                 q.date = date /\ q.sell_depth_med # NaN}
  IN IF rows = {} THEN 0
     ELSE LET q == CHOOSE q \in rows : TRUE
          IN q.sell_depth_med \div (2 * c.quantity_for_set)

\* C11: for every qualifying set and date, the bottleneck is the minimum over
\* all parts of the set's normalized composition of floor(part sell-side depth
\* / required quantity), a part without a depth that date (no summary row
\* included) counting as 0.
C11_BottleneckOverAllParts ==
  Analysed =>
    \A r \in sets_daily :
      LET cs == PartsOf(df_comps, r.set_url, r.platform)
      IN \A m \in {DepthOrZero(c, r.date) : c \in cs} :
           (\A c \in cs : m <= DepthOrZero(c, r.date)) => r.min_part_eff_depth = m

---------------------------------------------------------------------------
(* C12: cost, margin and ROI *)

\* the effective prices part c has on `date` (none, or one)
PricesOn(c, date) ==
  {SpecEffective(q.buy_med, q.sell_med) :
     q \in {x \in SummaryRows(c.part_url, c.platform) : x.date = date}} \ {NaN}

AllPartsPriced(r) ==
  \A c \in PartsOf(df_comps, r.set_url, r.platform) : PricesOn(c, r.date) # {}

PricedTotal(r) ==
  LET cs == PartsOf(df_comps, r.set_url, r.platform)
  IN SumOver(cs, [c \in cs |-> c.quantity_for_set * (CHOOSE v \in PricesOn(c, r.date) : TRUE)])

\* C12: for every SetDailyRecord whose parts all have an effective price that
\* date, parts cost is the sum of required quantity x effective price and
\* margin is the set's sell median minus it; ROI% is 100 x margin / parts cost
\* when parts cost > 0, and is missing whenever parts cost is <= 0 or missing
\* (or the margin is).
C12_CostMarginRoi ==
  Analysed =>
    \A r \in sets_daily :
      /\ AllPartsPriced(r) =>
           /\ r.parts_cost_buy = PricedTotal(r)
           /\ r.margin = IF r.sell_med = NaN THEN NaN ELSE r.sell_med - PricedTotal(r)
      /\ (r.parts_cost_buy # NaN /\ r.parts_cost_buy > 0 /\ r.margin # NaN)
           => r.roi_pct = <<100 * r.margin, r.parts_cost_buy>>
      /\ (r.parts_cost_buy = NaN \/ r.parts_cost_buy <= 0 \/ r.margin = NaN)
           => r.roi_pct = NoRoi

\* a two-part set with a quantity of 2, both parts priced that date, a positive
\* margin and its ROI; and, in the same series, a record whose parts cost is 0
\* or missing and whose ROI is missing
C12_Witness ==
  /\ Analysed
  /\ \E r \in sets_daily :
       /\ AllPartsPriced(r)
       /\ Cardinality(PartsOf(df_comps, r.set_url, r.platform)) = 2
       /\ \E c \in PartsOf(df_comps, r.set_url, r.platform) : c.quantity_for_set = 2
       /\ r.parts_cost_buy = PricedTotal(r) /\ r.parts_cost_buy > 0
       /\ r.margin > 0
       /\ r.roi_pct = <<100 * r.margin, r.parts_cost_buy>>
  /\ \E r \in sets_daily :
       (r.parts_cost_buy = NaN \/ r.parts_cost_buy = 0) /\ r.roi_pct = NoRoi

---------------------------------------------------------------------------
(* C13: the KPI daily potential *)

\* max(0, depth), a missing depth counting as 0
DepthFloor(v) == IF v = NaN \/ v < 0 THEN 0 ELSE v

\* min(max(0, set buy depth), max(0, bottleneck)), in half units
SpecVolumeCap(r) ==
  LET buyer == DepthFloor(r.buy_depth_med)
      assembly == 2 * DepthFloor(r.min_part_eff_depth)
  IN IF buyer <= assembly THEN buyer ELSE assembly

\* C13: for every SetDailyRecord with a defined margin, the daily volume cap
\* is min(max(0, set buy depth), max(0, bottleneck)) and the KPI daily
\* potential is max(0, margin) x cap: it is never negative, and it is 0 when
\* the margin is <= 0 or either depth is 0.
C13_KpiDailyPotential ==
  Analysed =>
    \A r \in sets_daily :
      r.margin # NaN =>
        /\ r.daily_volume_cap = SpecVolumeCap(r)
        /\ r.kpi_daily_potential =
             (IF r.margin > 0 THEN r.margin ELSE 0) * SpecVolumeCap(r)
        /\ r.kpi_daily_potential >= 0
        /\ (r.margin <= 0 \/ r.buy_depth_med = 0 \/ r.min_part_eff_depth = 0)
             => r.kpi_daily_potential = 0

\* one series with a record of negative margin and positive cap (potential 0)
\* and a record of positive margin and positive cap (potential their product)
C13_Witness ==
  /\ Analysed
  /\ \E r \in sets_daily :
       r.margin # NaN /\ r.margin < 0 /\ r.daily_volume_cap > 0 /\ r.kpi_daily_potential = 0
  /\ \E r \in sets_daily :
       /\ r.margin > 0 /\ r.daily_volume_cap > 0
       /\ r.buy_depth_med # 2 * r.min_part_eff_depth
       /\ r.kpi_daily_potential = r.margin * r.daily_volume_cap

---------------------------------------------------------------------------
(* C14: a missing margin and the KPI *)

\* C14: for every SetDailyRecord whose margin is missing (the set's sell
\* median or the parts cost is missing), the KPI daily potential and the
\* normalized KPI are missing too, never 0.
C14_MissingMarginGivesMissingKpi ==
  Analysed =>
    \A r \in sets_daily :
      r.margin = NaN =>
        /\ r.kpi_daily_potential = NaN
        /\ r.kpi_0_100 = NaN

---------------------------------------------------------------------------
(* C15: the rolling average *)

\* the daily series of one set on one platform
SeriesOf(s, p) == {r \in sets_daily : r.set_url = s /\ r.platform = p}

\* its last 30 records in increasing date order (one record per date)
LastThirty(s, p) ==
  {r \in SeriesOf(s, p) : Cardinality({q \in SeriesOf(s, p) : q.date > r.date}) < 30}

\* C15: for every set in the index, kpi_30d_avg is the mean of the last 30
\* KPI daily potentials of that set's series in increasing date order (all of
\* them when there are fewer), absent dates adding nothing.
C15_RollingAverage ==
  Analysed =>
    \A ix \in sets_index.rows :
      LET last == LastThirty(ix.set_url, ix.platform)
          total == SumOver(last, [r \in last |-> r.kpi_daily_potential])
      IN ix.kpi_30d_avg[1] * Cardinality(last) = total * ix.kpi_30d_avg[2]

---------------------------------------------------------------------------
(* C16: missing input *)

InputMissing == load_all_csv(orderbook) = <<>> \/ load_all_csv(setcomp) = <<>>

\* C16: when the order-book table or the set-component table is empty or
\* absent, the analytics run ends normally and each output table it writes has
\* no data row and carries its column header.
C16_EmptyInputGivesHeaderedOutputs ==
  (Analysed /\ InputMissing) =>
    /\ sets_index.exists /\ sets_index.rows = {} /\ sets_index.header
    /\ parts_latest.exists /\ parts_latest.rows = {} /\ parts_latest.header

---------------------------------------------------------------------------
(* C17: malformed raw records *)

WellFormedOrders ==
  LET Good(r) == r.ts # BadTs IN SelectSeq(RawOrders, Good)

WellFormedComps ==
  LET Good(r) == r.quantity_for_set # Junk IN SelectSeq(RawComps, Good)

\* C17: a raw record with an unparseable timestamp or a non-numeric value in
\* a numeric field is left out of the aggregation it would feed, the other
\* records are processed as if it were not there, and the analytics run
\* completes: one bad row never aborts the run.
C17_MalformedRecordLeftOut ==
  /\ pc # "failed"
  /\ (Analysed /\ ~InputMissing) =>
       /\ \A d \in daily : d.date # NaN
       /\ \A d \in daily :
            \A f \in {"buy_med", "sell_med", "buy_depth_med", "sell_depth_med"} : d[f] # Junk
       /\ daily = WithEff(daily_medians_orderbook(WellFormedOrders))
       /\ df_comps = dedup_components(WellFormedComps)

---------------------------------------------------------------------------
(* C18: determinism under permutation of the raw rows *)

\* a table with its first two rows exchanged, and with its first row moved to
\* the end: the two generate every reordering
SwapFirst(q) == IF Len(q) < 2 THEN q ELSE <<q[2], q[1]>> \o SubSeq(q, 3, Len(q))

RotateOne(q) == IF Len(q) < 2 THEN q ELSE Tail(q) \o <<q[1]>>

Reorderings(q) == {q, SwapFirst(q), RotateOne(q)}

AllReorderings(q) == {[i \in DOMAIN q |-> q[f[i]]] : f \in IndexPermutations(Len(q))}

\* C18: an analytics run on the same raw order-book and component rows in
\* another order gives the same set index, the same per-set daily series and
\* the same part breakdown, also for a set observed on two platforms.
C18_SameOutputsForAnyRowOrder ==
  (Analysed /\ ~InputMissing) =>
    \A orders \in Reorderings(RawOrders), comps \in AllReorderings(RawComps) :
      \A c \in {dedup_components(comps)} :
        \A d \in {WithEff(daily_medians_orderbook(orders))} :
          \A sd \in {build_sets_daily(c, d)} :
            \A nsd \in {Normalised(sd)} :
              /\ timeseries = WriteSeries(<<>>, sd)
              /\ sets_index.rows = build_sets_index(nsd)
              /\ \A latest \in {latest_by_set(nsd)} :
                   parts_latest.rows =
                     IF latest = {} THEN {} ELSE build_parts_latest(c, d, latest)

\* the set is in the index on both platforms, a part has two snapshots on one
\* day, and the component table holds two quantities for one link, the
\* smaller one first
C18_Witness ==
  /\ Analysed
  /\ \E i1 \in sets_index.rows, i2 \in sets_index.rows :
       i1.set_url = i2.set_url /\ i1.platform = "pc" /\ i2.platform = "xbox"
  /\ \E i, j \in DOMAIN RawOrders :
       /\ i # j /\ RawOrders[i].item_url = RawOrders[j].item_url
       /\ RawOrders[i].platform = RawOrders[j].platform
       /\ RawOrders[i].ts # RawOrders[j].ts /\ RawOrders[i].ts[1] = RawOrders[j].ts[1]
  /\ \E i, j \in DOMAIN RawComps :
       /\ i < j /\ RawComps[i].platform = RawComps[j].platform
       /\ RawComps[i].quantity_for_set < RawComps[j].quantity_for_set
  /\ parts_latest.rows # {}

---------------------------------------------------------------------------
(* C19: the raw store only grows *)

\* C19: over any sequence of collector runs in one month, the unreadable
\* and the interrupted ones included, a natural key that was in the month's
\* current file after some run is in it whenever the month has a current file
\* (a current file exists exactly when the last run that rotated it completed
\* its write).
C19_RawStoreOnlyGrows ==
  \A m \in Months :
    /\ orderbook[m].cur.exists =>
         \A w \in written :
           (w[1] = "orderbook" /\ w[2] = m) => w \in KeysHeld(orderbook, setcomp)
    /\ setcomp[m].cur.exists =>
         \A w \in written :
           (w[1] = "set_components" /\ w[2] = m) => w \in KeysHeld(orderbook, setcomp)

---------------------------------------------------------------------------
(* C20: the derived outputs are a function of the raw tables *)

\* what the raw tables determine: the per-set series, the set index and the
\* part breakdown main() computes from them, starting from an empty directory
OutputsDetermined ==
  IF InputMissing
  THEN /\ timeseries = <<>>
       /\ sets_index.rows = {}
       /\ parts_latest.rows = {}
  ELSE \A c \in {dedup_components(RawComps)} :
         \A d \in {WithEff(daily_medians_orderbook(RawOrders))} :
           \A sd \in {build_sets_daily(c, d)} :
             \A nsd \in {Normalised(sd)} :
               /\ timeseries = WriteSeries(<<>>, sd)
               /\ sets_index.rows = build_sets_index(nsd)
               /\ \A latest \in {latest_by_set(nsd)} :
                    parts_latest.rows =
                      IF latest = {} THEN {} ELSE build_parts_latest(c, d, latest)

\* a step that ends an analytics run: only AnalyticsRun sets pc to "analysed",
\* and only Tick besides it leaves pc there
EndsAnalytics == pc' = "analysed" /\ clock' = clock

\* C20: after any analytics run the set index, the part breakdown and the
\* collection of per-set series are exactly what the current raw tables
\* determine (nothing of an earlier run over other raw data remains); the run
\* does not modify the raw tables; and a run that follows a run on unchanged
\* raw tables leaves the outputs unchanged.
C20_OutputsArePureFunctionOfRaw ==
  /\ [](Analysed => OutputsDetermined)
  /\ [][EndsAnalytics => UNCHANGED <<orderbook, setcomp>>]_vars
  /\ [][(Analysed /\ EndsAnalytics) =>
          UNCHANGED <<timeseries, sets_index, parts_latest>>]_vars

---------------------------------------------------------------------------
(* C21: the per-set daily series carry the normalised KPI fields *)

\* the columns the KPI steps add to a SetDailyRecord: lines 217-218 and 261-266
KpiFields == {"daily_volume_cap", "kpi_daily_potential", "vol_min", "kpi_norm", "kpi_0_100"}

---------------------------------------------------------------------------
(* C22: the set index *)

\* the (set, platform) pairs that have SetDailyRecord rows
PairsWithRecords == {<<r.set_url, r.platform>> : r \in sets_daily}

IndexRowsOf(s, p) == {ix \in sets_index.rows : ix.set_url = s /\ ix.platform = p}

\* the index row repeats the metrics of the record r
SnapshotOf(ix, r) ==
  /\ ix.latest_date = r.date
  /\ ix.set_sell_med = r.sell_med
  /\ ix.parts_cost_buy = r.parts_cost_buy
  /\ ix.margin = r.margin
  /\ ix.roi_pct = r.roi_pct
  /\ ix.buy_depth_med = r.buy_depth_med
  /\ ix.min_part_eff_depth = r.min_part_eff_depth
  /\ ix.vol_min = r.vol_min
  /\ ix.kpi_daily = r.kpi_daily_potential
  /\ ix.kpi_norm = r.kpi_norm
  /\ ix.kpi_0_100 = r.kpi_0_100

\* C22: the index has exactly one row per (set, platform) that has
\* SetDailyRecord rows and none for any other pair; that row holds the metrics
\* of the pair's record of the greatest date; and the join of the rolling
\* average leaves as many rows as there are pairs, each with an average.
C22_OneIndexRowPerSetPlatform ==
  (Analysed /\ ~InputMissing) =>
    /\ \A sp \in PairsWithRecords : Cardinality(IndexRowsOf(sp[1], sp[2])) = 1
    /\ \A ix \in sets_index.rows :
         /\ <<ix.set_url, ix.platform>> \in PairsWithRecords
         /\ ix.kpi_30d_avg[1] # NaN
         /\ \E r \in sets_daily :
              /\ r.set_url = ix.set_url /\ r.platform = ix.platform
              /\ \A q \in sets_daily :
                   (q.set_url = r.set_url /\ q.platform = r.platform) => q.date <= r.date
              /\ SnapshotOf(ix, r)
    /\ Cardinality(sets_index.rows) = Cardinality(PairsWithRecords)

\* a set recorded on two platforms, on one of them on two dates
C22_Witness ==
  /\ Analysed
  /\ \E r1, r2, r3 \in sets_daily :
       /\ r1.set_url = r2.set_url /\ r1.platform # r2.platform
       /\ r3.set_url = r2.set_url /\ r3.platform = r2.platform /\ r3.date < r2.date
       /\ r3.sell_med # r2.sell_med
  /\ Cardinality(sets_index.rows) = 2

---------------------------------------------------------------------------
(* C24: the resolved date of the part breakdown *)

\* C24: in every PartLatestRecord that matched a part summary row, the
\* recorded date latest_date_part is the date of that row, the part's
\* DailySummary row of the greatest date <= the set's latest date.
C24_ResolvedDateIsPartRowDate ==
  Analysed =>
    \A pr \in parts_latest.rows :
      \A q \in AsOfRow(pr.part_url, pr.platform, SetLatestDate(pr.set_url, pr.platform)) :
        pr.latest_date_part = q.date

---------------------------------------------------------------------------
(* C23: an observation kept in a backup file too is counted once *)

\* the stored observations: one per distinct (item, platform, timestamp) of the
\* rows of the store, whatever the number of files that hold a copy of it
Observations ==
  {o \in {RawOrders[i] : i \in DOMAIN RawOrders} :
     \A j \in DOMAIN RawOrders :
       ObKey(RawOrders[j]) = ObKey(o) =>
         \E i \in DOMAIN RawOrders :
           i <= j /\ RawOrders[i] = o /\ ObKey(RawOrders[i]) = ObKey(o)}

\* the values of one field over the observations of one group, sorted
SortedOnce(k, field) ==
  LET J == {o \in Observations : GroupOf(o) = k /\ Present(o[field])}
      n == Cardinality(J)
      vals == {o[field] : o \in J}
  IN CHOOSE s \in [1..n -> vals] :
       /\ \A i \in 1..n, j \in 1..n : i <= j => s[i] <= s[j]
       /\ \A v \in vals : Cardinality({i \in 1..n : s[i] = v})
                            = Cardinality({o \in J : o[field] = v})

\* C23: each stored order-book observation (a distinct item, platform,
\* timestamp) is counted exactly once in its daily median, although the store
\* keeps a backup file with an earlier copy of the same rows: every daily
\* median is the median over the distinct observations of its group.
C23_ObservationCountedOnce ==
  (Analysed /\ ~InputMissing) =>
    \A d \in daily :
      \A i \in DOMAIN DailyFields :
        d[DailyFields[i][1]] =
          TwiceMedian(SortedOnce(<<d.item_url, d.platform, d.date>>, DailyFields[i][2]))

====
